---- MODULE Spec2Model ----
(***************************************************************************)
(* Model of BinanceSocket (src/socket-multiple.py, the LED-matrix variant, *)
(* and src/socket-multiple-console-ui.py, the console variant): the feed   *)
(* task fetch_ticker_data with handle_message, the rotation timer          *)
(* toggle_symbol and the presentation timer run_ticker.                    *)
(*                                                                         *)
(* Strings the code transforms (symbols, store keys, subscribe params) are *)
(* sequences of one-character strings, so that replace('-', '') and        *)
(* upper() are computed.  Strings the code only copies (price, volumes)    *)
(* are atomic.  Decimal strings are (sign, coeff, exp) as decimal.Decimal  *)
(* holds them.                                                             *)
(***************************************************************************)
EXTENDS Integers, Sequences, FiniteSets, TLC

VARIABLES
    variant,         \* "matrix": socket-multiple.py, "console": socket-multiple-console-ui.py
    symbols,         \* self.symbols
    refresh,         \* self.refresh
    data,            \* self.data: store key -> snapshot
    ctr,             \* self.ctr
    cycle_symbols,   \* self.cycle_symbols: state of itertools.cycle(self.symbols)
    current_symbol,  \* self.current_symbol
    fpc,             \* position of the feed task in fetch_ticker_data / run
    attempt,         \* connection attempts started so far (saturates at MaxAttempts)
    exc,             \* exception that left fetch_ticker_data uncaught ("" if none)
    message,         \* loop variable of `async for message in sock`
    logged,          \* what the last step of the feed task passed to logging
    sock,            \* the connection of `async with`: "none", "open", "silent" or "closed"
    sent,            \* payloads handed to sock.send on the current connection
    latest,          \* history: per 's', the last valid ticker frame given to handle_message
    tpc,             \* position of the rotation timer thread in toggle_symbol
    tickPhase,       \* completed rotation ticks modulo Len(symbols)
    ppc,             \* position of the presentation timer thread in run_ticker
    psym,            \* render_ticker_canvas: parameter `symbol`
    psnap,           \* render_ticker_canvas: local `data`
    pvol,            \* get_volume_text: local vol_txt ("B" or "Q" figure)
    ptmp             \* get_volume_text: value of self.ctr loaded by `self.ctr += 1`

vars == <<variant, symbols, refresh, data, ctr, cycle_symbols, current_symbol,
          fpc, attempt, exc, message, logged, sock, sent, latest, tpc, tickPhase,
          ppc, psym, psnap, pvol, ptmp>>

confVars == <<variant, symbols, refresh>>
feedVars == <<fpc, attempt, exc, message, logged, sock, sent, latest>>
presVars == <<ppc, psym, psnap, pvol, ptmp>>

(***************************************************************************)
(* Bounds of the model.                                                    *)
(***************************************************************************)
MaxSymbols == 2
MaxRefresh == 2
MaxAttempts == 3

(***************************************************************************)
(* Strings.                                                                *)
(***************************************************************************)
UpperChar(c) ==
    CASE c = "a" -> "A"
      [] c = "b" -> "B"
      [] c = "c" -> "C"
      [] OTHER -> c

\* str.upper()
Upper(s) == [i \in DOMAIN s |-> UpperChar(s[i])]

NotHyphen(c) == c # "-"

\* str.replace('-', '')
StripHyphens(s) == SelectSeq(s, NotHyphen)

\* symbol.replace('-', '').upper(): the key the presentation looks up
NormalizeKey(symbol) == Upper(StripHyphens(symbol))

(***************************************************************************)
(* Decimal strings and '{0:.4f}'.format(Decimal(P)).                       *)
(***************************************************************************)
RECURSIVE Pow10(_)
Pow10(n) == IF n = 0 THEN 1 ELSE 10 * Pow10(n - 1)

Dec(sign, coeff, exp) == [sign |-> sign, coeff |-> coeff, exp |-> exp]

\* Decimal(x) raises InvalidOperation for a string that is no number
IsDecimal(x) == DOMAIN x = {"sign", "coeff", "exp"}

\* '{0:.4f}'.format(d): four decimal places, ROUND_HALF_EVEN, sign kept
Format4(d) ==
    LET shift == d.exp + 4
    IN  IF shift >= 0
        THEN Dec(d.sign, d.coeff * Pow10(shift), -4)
        ELSE LET unit == Pow10(-shift)
                 q == d.coeff \div unit
                 r == d.coeff % unit
                 up == 2 * r > unit \/ (2 * r = unit /\ q % 2 = 1)
             IN  Dec(d.sign, IF up THEN q + 1 ELSE q, -4)

(***************************************************************************)
(* Configuration (__init__, lines 22-31): a non-empty symbol list and a    *)
(* positive toggle rate.                                                   *)
(***************************************************************************)
SymbolPool == << <<"a", "-", "b">>, <<"c">> >>

\* SYMBOLS of length n: the pool repeated (a list may name a symbol twice)
ConfigSymbols(n) == [i \in 1..n |-> SymbolPool[((i - 1) % Len(SymbolPool)) + 1]]

Variants == {"matrix", "console"}

(***************************************************************************)
(* itertools.cycle(self.symbols): the first pass consumes the list and     *)
(* saves each item, later passes run over the saved items.                 *)
(***************************************************************************)
cycle(src) == [consumed |-> 0, saved |-> <<>>, index |-> 0]

CycleItem(c, src) ==
    IF c.consumed < Len(src) THEN src[c.consumed + 1] ELSE c.saved[c.index + 1]

\* a cycle whose later passes step over every other saved item
CycleAdvance_skips(c, src) ==
    IF c.consumed < Len(src)
    THEN [c EXCEPT !.consumed = @ + 1, !.saved = Append(@, src[c.consumed + 1])]
    ELSE [c EXCEPT !.index = (@ + 2) % Len(c.saved)]

CycleAdvance(c, src) ==
    IF c.consumed < Len(src)
    THEN [c EXCEPT !.consumed = @ + 1, !.saved = Append(@, src[c.consumed + 1])]
    ELSE [c EXCEPT !.index = (@ + 1) % Len(c.saved)]

(***************************************************************************)
(* Inbound frames.  raw says what json.loads makes of the frame's bytes;   *)
(* type and obj are the parsed value of a frame that parses.               *)
(***************************************************************************)
Frame(raw, type, obj) == [raw |-> raw, type |-> type, obj |-> obj]

NoObj == [none |-> ""]

KeyAB == <<"A", "B">>
RawAB == <<"a", "-", "b">>

\* {"s":"AB","c":"50000.00","P":"1.2345","v":"10","q":"500000"}
TickerAB1 ==
    Frame("json", "object",
          [s |-> KeyAB, c |-> "50000.00", P |-> Dec(0, 12345, -4), v |-> "10", q |-> "500000"])

\* {"s":"AB","c":"49000.00","P":"-0.5","v":"11","q":"539000"}
TickerAB2 ==
    Frame("json", "object",
          [s |-> KeyAB, c |-> "49000.00", P |-> Dec(1, 5, -1), v |-> "11", q |-> "539000"])

\* {"s":"a-b","c":"7.00","P":"1.23455","v":"3","q":"21"}: symbol as configured
TickerRaw ==
    Frame("json", "object",
          [s |-> RawAB, c |-> "7.00", P |-> Dec(0, 123455, -5), v |-> "3", q |-> "21"])

\* {"s":"C","c":"2.00","P":"0","v":"8","q":"16"}
TickerC ==
    Frame("json", "object",
          [s |-> <<"C">>, c |-> "2.00", P |-> Dec(0, 0, 0), v |-> "8", q |-> "16"])

\* {"id":1,"result":null}
AckFrame == Frame("json", "object", [id |-> "1", result |-> "null"])

\* {"id":7,"s":"AB","c":"1.00","P":"0.1","v":"1","q":"1"}
TickerWithId ==
    Frame("json", "object",
          [id |-> "7", s |-> KeyAB, c |-> "1.00", P |-> Dec(0, 1, -1), v |-> "1", q |-> "1"])

\* {"s":"AB","c":"50000.00"}
IncompleteNoP == Frame("json", "object", [s |-> KeyAB, c |-> "50000.00"])

\* {"c":"50000.00","P":"1.2345","v":"10","q":"500000"}
IncompleteNoS ==
    Frame("json", "object",
          [c |-> "50000.00", P |-> Dec(0, 12345, -4), v |-> "10", q |-> "500000"])

\* {"s":"AB","c":"1.00","P":"abc","v":"1","q":"1"}
TickerBadP ==
    Frame("json", "object",
          [s |-> KeyAB, c |-> "1.00", P |-> [text |-> "abc"], v |-> "1", q |-> "1"])

\* 1
NumberFrame == Frame("json", "number", NoObj)

\* a text frame that is no JSON document
NotJsonFrame == Frame("not_json", "", NoObj)

\* a binary frame whose bytes are not UTF-8, such as b'\xff'
BadUtf8Frame == Frame("bad_utf8", "", NoObj)

\* a text frame nested deeper than the interpreter's recursion limit
TooDeepFrame == Frame("too_deep", "", NoObj)

FeedFrames ==
    {TickerAB1, TickerAB2, TickerRaw, AckFrame, TickerWithId, IncompleteNoP,
     IncompleteNoS, TickerBadP, NumberFrame, NotJsonFrame, BadUtf8Frame, TooDeepFrame}

\* a feed that serves every subscribed symbol: tickers of both streams and the ack
DisplayFrames == {TickerAB1, TickerC, AckFrame}

NoMessage == Frame("", "", NoObj)

TickerFields == {"s", "c", "P", "v", "q"}

(***************************************************************************)
(* json.loads(message) (line 83): the parsed value or the exception.       *)
(***************************************************************************)
json_loads(m) ==
    CASE m.raw = "json" -> [exc |-> "", type |-> m.type, obj |-> m.obj]
      [] m.raw = "not_json" -> [exc |-> "JSONDecodeError", type |-> "", obj |-> NoObj]
      [] m.raw = "bad_utf8" -> [exc |-> "UnicodeDecodeError", type |-> "", obj |-> NoObj]
      [] m.raw = "too_deep" -> [exc |-> "RecursionError", type |-> "", obj |-> NoObj]

\* an assignment that keeps the value a key already has
DictSet_keeps_old(d, key, value) ==
    [k \in DOMAIN d \cup {key} |-> IF k \in DOMAIN d THEN d[k] ELSE value]

\* self.data[key] = value
DictSet(d, key, value) ==
    [k \in DOMAIN d \cup {key} |-> IF k = key THEN value ELSE d[k]]

EmptyDict == [k \in {} |-> k]

Outcome(d, e, l) == [data |-> d, exc |-> e, log |-> l]

\* handle_message without the test of line 84: every parsed object is stored
handle_message_no_id_test(d, m) ==
    LET j == json_loads(m)
        obj == j.obj
    IN  IF j.exc = "JSONDecodeError" THEN Outcome(d, "", "Error decoding message")
        ELSE IF j.exc # "" THEN Outcome(d, j.exc, "")
        ELSE IF j.type # "object" THEN Outcome(d, "TypeError", "")
        ELSE IF "P" \notin DOMAIN obj THEN Outcome(d, "KeyError", "")
        ELSE IF ~IsDecimal(obj.P) THEN Outcome(d, "InvalidOperation", "")
        ELSE IF ~({"c", "v", "s", "q"} \subseteq DOMAIN obj) THEN Outcome(d, "KeyError", "")
        ELSE Outcome(DictSet(d, obj.s,
                             [change |-> Format4(obj.P), price |-> obj.c, vol |-> obj.v,
                              symbol |-> obj.s, quote |-> obj.q]),
                     "", "")

\* handle_message storing the snapshot into a fresh dict
handle_message_replaces_store(d, m) ==
    LET j == json_loads(m)
        obj == j.obj
    IN  IF j.exc = "JSONDecodeError" THEN Outcome(d, "", "Error decoding message")
        ELSE IF j.exc # "" THEN Outcome(d, j.exc, "")
        ELSE IF j.type # "object" THEN Outcome(d, "TypeError", "")
        ELSE IF "id" \in DOMAIN obj THEN Outcome(d, "", "")
        ELSE IF "P" \notin DOMAIN obj THEN Outcome(d, "KeyError", "")
        ELSE IF ~IsDecimal(obj.P) THEN Outcome(d, "InvalidOperation", "")
        ELSE IF ~({"c", "v", "s", "q"} \subseteq DOMAIN obj) THEN Outcome(d, "KeyError", "")
        ELSE Outcome(DictSet(EmptyDict, obj.s,
                             [change |-> Format4(obj.P), price |-> obj.c, vol |-> obj.v,
                              symbol |-> obj.s, quote |-> obj.q]),
                     "", "")

(***************************************************************************)
(* handle_message (lines 81-93): the store after the call, the exception   *)
(* it raises to its caller ("" if none) and what it logs ("" if nothing).  *)
(* Only json.JSONDecodeError is caught.  The right-hand side of the        *)
(* assignment is evaluated first, in the order P, c, v, s, q.              *)
(***************************************************************************)
handle_message(d, m) ==
    LET j == json_loads(m)
        obj == j.obj
    IN  IF j.exc = "JSONDecodeError" THEN Outcome(d, "", "Error decoding message")
        ELSE IF j.exc # "" THEN Outcome(d, j.exc, "")
        ELSE IF j.type # "object" THEN Outcome(d, "TypeError", "")
        ELSE IF "id" \in DOMAIN obj THEN Outcome(d, "", "")
        ELSE IF "P" \notin DOMAIN obj THEN Outcome(d, "KeyError", "")
        ELSE IF ~IsDecimal(obj.P) THEN Outcome(d, "InvalidOperation", "")
        ELSE IF ~({"c", "v", "s", "q"} \subseteq DOMAIN obj) THEN Outcome(d, "KeyError", "")
        ELSE Outcome(DictSet(d, obj.s,
                             [change |-> Format4(obj.P), price |-> obj.c, vol |-> obj.v,
                              symbol |-> obj.s, quote |-> obj.q]),
                     "", "")

(***************************************************************************)
(* get_pairs_payload (lines 61-64): the SUBSCRIBE request.                 *)
(***************************************************************************)
AtTicker == <<"@", "t", "i", "c", "k", "e", "r">>

\* get_pairs_payload without the replace('-', '') of line 62
get_pairs_payload_keeps_hyphens(syms) ==
    [method |-> "SUBSCRIBE",
     params |-> [i \in DOMAIN syms |-> syms[i] \o AtTicker],
     id |-> 1]

get_pairs_payload(syms) ==
    [method |-> "SUBSCRIBE",
     params |-> [i \in DOMAIN syms |-> StripHyphens(syms[i]) \o AtTicker],
     id |-> 1]

(***************************************************************************)
(* Frame classes the claims speak of.                                      *)
(***************************************************************************)
IsObject(m) == m.raw = "json" /\ m.type = "object"

\* an object with an 'id' field and none of the ticker fields
IsAck(m) ==
    IsObject(m) /\ "id" \in DOMAIN m.obj /\ DOMAIN m.obj \cap TickerFields = {}

\* parses as JSON, has no 'id' and lacks at least one of s, c, P, v, q
IsIncompleteTicker(m) ==
    IsObject(m) /\ "id" \notin DOMAIN m.obj /\ ~(TickerFields \subseteq DOMAIN m.obj)

\* s, c, P, v, q present with P a decimal string, no 'id'
IsValidTicker(m) ==
    /\ IsObject(m)
    /\ "id" \notin DOMAIN m.obj
    /\ TickerFields \subseteq DOMAIN m.obj
    /\ IsDecimal(m.obj.P)

\* the frame's bytes are no JSON document
IsNotJson(m) == m.raw \in {"not_json", "bad_utf8"}

(***************************************************************************)
(* Initial state: __init__ (lines 22-36) has run, run() has started the    *)
(* two timers (lines 158-159) and fetch_ticker_data is about to connect.   *)
(***************************************************************************)
NoSnap == [none |-> ""]

NoSymbol == <<>>

Init ==
    /\ variant \in Variants
    /\ \E n \in 1..MaxSymbols : symbols = ConfigSymbols(n)
    /\ refresh \in 1..MaxRefresh
    /\ data = EmptyDict
    /\ ctr = 0
    /\ cycle_symbols = CycleAdvance(cycle(symbols), symbols)
    /\ current_symbol = CycleItem(cycle(symbols), symbols)
    /\ fpc = "connect"
    /\ attempt = 0
    /\ exc = ""
    /\ message = NoMessage
    /\ logged = ""
    /\ sock = "none"
    /\ sent = <<>>
    /\ latest = EmptyDict
    /\ tpc = "idle"
    /\ tickPhase = 0
    /\ ppc = "idle"
    /\ psym = NoSymbol
    /\ psnap = NoSnap
    /\ pvol = ""
    /\ ptmp = 0

(***************************************************************************)
(* fetch_ticker_data.  The except clause of the matrix variant (line 77)   *)
(* catches ConnectionClosed and asyncio.TimeoutError, logs and sleeps; the *)
(* one of the console variant (line 81) also catches InvalidURI and        *)
(* OSError, logs and calls sys.exit(1), which raises SystemExit.  Anything *)
(* else leaves the coroutine, and run() catches only KeyboardInterrupt.    *)
(***************************************************************************)
CaughtMatrix == {"ConnectionClosed", "TimeoutError"}

CaughtConsole == {"ConnectionClosed", "TimeoutError", "InvalidURI", "OSError"}

Caught(v) == IF v = "matrix" THEN CaughtMatrix ELSE CaughtConsole

\* what websockets.connect(url) raises when the connection is not established;
\* "OSError" is an OSError other than TimeoutError (a refused connection, a
\* failed name lookup), "TimeoutError" is asyncio.TimeoutError
ConnectFailures == {"OSError", "TimeoutError", "InvalidURI", "InvalidHandshake"}

\* where fetch_ticker_data goes when e is raised inside its try block
AfterException(v, e) ==
    IF e \notin Caught(v) THEN "raised"
    ELSE IF v = "matrix" THEN "sleep"
    ELSE "exited"

Raise(e) ==
    /\ fpc' = AfterException(variant, e)
    /\ exc' = IF e \notin Caught(variant) THEN e
              ELSE IF variant = "matrix" THEN exc
              ELSE "SystemExit"
    /\ logged' = IF e \in Caught(variant) THEN "WebSocket connection error" ELSE ""

\* where fetch_ticker_data goes when `async for` ends without an exception
AfterIteration(v) == IF v = "matrix" THEN "connect" ELSE "returned"

Saturate(n) == IF n < MaxAttempts THEN n + 1 ELSE MaxAttempts

\* lines 69-70: websockets.connect(url)
Connect ==
    /\ fpc = "connect"
    /\ attempt' = Saturate(attempt)
    /\ \/ fpc' = "send" /\ logged' = "" /\ exc' = exc /\ sock' = "open" /\ sent' = <<>>
       \/ \E e \in ConnectFailures : Raise(e) /\ UNCHANGED <<sock, sent>>
    /\ UNCHANGED <<confVars, data, ctr, cycle_symbols, current_symbol, message,
                   latest, tpc, tickPhase, presVars>>

\* lines 71-73: the payload is logged, then sent; send raises on a closed connection
Subscribe ==
    /\ fpc = "send"
    /\ \/ /\ sent' = Append(sent, get_pairs_payload(symbols))
          /\ fpc' = "recv"
          /\ logged' = "Subscribing with payload"
          /\ exc' = exc
          /\ sock' = sock
       \/ Raise("ConnectionClosed") /\ sent' = sent /\ sock' = "closed"
    /\ UNCHANGED <<confVars, data, ctr, cycle_symbols, current_symbol, attempt, message,
                   latest, tpc, tickPhase, presVars>>

\* line 75: the iteration yields the next frame, ends (the remote closed with
\* code 1000 or 1001) or raises ConnectionClosedError (any other close); leaving
\* the `async with` block closes the connection
ReceiveFrom(frames) ==
    /\ fpc = "recv"
    /\ sock = "open"
    /\ \/ \E f \in frames :
             message' = f /\ fpc' = "handle" /\ logged' = "" /\ exc' = exc /\ sock' = sock
       \/ /\ fpc' = AfterIteration(variant)
          /\ message' = message /\ logged' = "" /\ exc' = exc /\ sock' = "closed"
       \/ Raise("ConnectionClosed") /\ message' = message /\ sock' = "closed"
    /\ UNCHANGED <<confVars, data, ctr, cycle_symbols, current_symbol, attempt, sent,
                   latest, tpc, tickPhase, presVars>>

Receive == ReceiveFrom(FeedFrames)

ReceiveDisplay == ReceiveFrom(DisplayFrames)

\* line 75: the remote stops sending frames and never closes the connection,
\* while it still answers the keepalive pings; the iteration has no timeout
Silence ==
    /\ fpc = "recv"
    /\ sock = "open"
    /\ sock' = "silent"
    /\ UNCHANGED <<confVars, data, ctr, cycle_symbols, current_symbol, fpc, attempt, exc,
                   message, logged, sent, latest, tpc, tickPhase, presVars>>

\* line 76: self.handle_message(message); the console variant then redraws
\* (lines 77-80), which only reads
Handle ==
    /\ fpc = "handle"
    /\ LET r == handle_message(data, message)
       IN  /\ data' = r.data
           /\ IF r.exc = ""
              THEN fpc' = "recv" /\ logged' = r.log /\ exc' = exc /\ sock' = sock
              ELSE Raise(r.exc) /\ sock' = "closed"
    /\ latest' = IF IsValidTicker(message)
                 THEN [k \in DOMAIN latest \cup {message.obj.s} |->
                          IF k = message.obj.s THEN message.obj ELSE latest[k]]
                 ELSE latest
    /\ UNCHANGED <<confVars, ctr, cycle_symbols, current_symbol, attempt, message, sent,
                   tpc, tickPhase, presVars>>

\* line 79: await asyncio.sleep(5)
Backoff ==
    /\ fpc = "sleep"
    /\ fpc' = "connect"
    /\ logged' = ""
    /\ UNCHANGED <<confVars, data, ctr, cycle_symbols, current_symbol, attempt, exc,
                   message, sock, sent, latest, tpc, tickPhase, presVars>>

Running == {"connect", "send", "recv", "handle", "sleep"}

\* run(), lines 161-165: KeyboardInterrupt ends run_until_complete
KeyboardInterrupt ==
    /\ fpc \in Running
    /\ fpc' = "shutdown"
    /\ logged' = "Shutting down..."
    /\ UNCHANGED <<confVars, data, ctr, cycle_symbols, current_symbol, attempt, exc,
                   message, sock, sent, latest, tpc, tickPhase, presVars>>

fetch_ticker_data == Connect \/ Subscribe \/ Receive \/ Handle \/ Backoff

(***************************************************************************)
(* toggle_symbol (lines 149-152), run by the rotation timer's thread, one  *)
(* statement at a time.                                                    *)
(***************************************************************************)
\* line 150: self.current_symbol = next(self.cycle_symbols)
ToggleNext ==
    /\ tpc = "idle"
    /\ current_symbol' = CycleItem(cycle_symbols, symbols)
    /\ cycle_symbols' = CycleAdvance(cycle_symbols, symbols)
    /\ tickPhase' = (tickPhase + 1) % Len(symbols)
    /\ tpc' = "reset"
    /\ UNCHANGED <<confVars, data, ctr, feedVars, presVars>>

\* line 151: self.ctr = 0
ToggleReset ==
    /\ tpc = "reset"
    /\ ctr' = 0
    /\ tpc' = "log"
    /\ UNCHANGED <<confVars, data, cycle_symbols, current_symbol, feedVars, tickPhase,
                   presVars>>

\* line 152: logging.info, return
ToggleLog ==
    /\ tpc = "log"
    /\ tpc' = "idle"
    /\ UNCHANGED <<confVars, data, ctr, cycle_symbols, current_symbol, feedVars,
                   tickPhase, presVars>>

toggle_symbol == ToggleNext \/ ToggleReset \/ ToggleLog

(***************************************************************************)
(* run_ticker, run by the presentation timer's thread.  Matrix variant:    *)
(* render_ticker_canvas (lines 95-131) with get_volume_text (133-147).     *)
(* Console variant: update_console (lines 99-110), which only reads.       *)
(***************************************************************************)
\* a lookup that always takes the first configured symbol's snapshot
RenderLookup_first_symbol ==
    /\ ppc = "idle"
    /\ variant = "matrix"
    /\ LET key == NormalizeKey(symbols[1])
       IN  IF key \in DOMAIN data
           THEN psym' = current_symbol /\ psnap' = data[key] /\ ppc' = "vol"
           ELSE UNCHANGED <<psym, psnap, ppc>>
    /\ UNCHANGED <<confVars, data, ctr, cycle_symbols, current_symbol, feedVars,
                   tpc, tickPhase, pvol, ptmp>>

\* a lookup that normalizes self.current_symbol in place
RenderLookup_normalizes_in_place ==
    /\ ppc = "idle"
    /\ variant = "matrix"
    /\ LET key == NormalizeKey(current_symbol)
       IN  /\ current_symbol' = key
           /\ IF key \in DOMAIN data
              THEN psym' = key /\ psnap' = data[key] /\ ppc' = "vol"
              ELSE UNCHANGED <<psym, psnap, ppc>>
    /\ UNCHANGED <<confVars, data, ctr, cycle_symbols, feedVars,
                   tpc, tickPhase, pvol, ptmp>>

\* lines 155, 96-100: the lookup under the normalized current symbol
RenderLookup ==
    /\ ppc = "idle"
    /\ variant = "matrix"
    /\ LET key == NormalizeKey(current_symbol)
       IN  IF key \in DOMAIN data
           THEN psym' = current_symbol /\ psnap' = data[key] /\ ppc' = "vol"
           ELSE UNCHANGED <<psym, psnap, ppc>>
    /\ UNCHANGED <<confVars, data, ctr, cycle_symbols, current_symbol, feedVars,
                   tpc, tickPhase, pvol, ptmp>>

\* lines 135-141: n = self.refresh / 2; base volume if self.ctr >= n else quote volume
VolumeChoose ==
    /\ ppc = "vol"
    /\ pvol' = IF 2 * ctr >= refresh THEN "B" ELSE "Q"
    /\ ppc' = "wrap"
    /\ UNCHANGED <<confVars, data, ctr, cycle_symbols, current_symbol, feedVars,
                   tpc, tickPhase, psym, psnap, ptmp>>

\* get_volume_text without the wrap of lines 143-144
VolumeWrap_never_wraps ==
    /\ ppc = "wrap"
    /\ ctr' = ctr
    /\ ptmp' = ctr'
    /\ ppc' = "store"
    /\ UNCHANGED <<confVars, data, cycle_symbols, current_symbol, feedVars,
                   tpc, tickPhase, psym, psnap, pvol>>

\* lines 143-146: the wrap to 0, then the load of self.ctr by `self.ctr += 1`
VolumeWrap ==
    /\ ppc = "wrap"
    /\ ctr' = IF ctr = refresh THEN 0 ELSE ctr
    /\ ptmp' = ctr'
    /\ ppc' = "store"
    /\ UNCHANGED <<confVars, data, cycle_symbols, current_symbol, feedVars,
                   tpc, tickPhase, psym, psnap, pvol>>

\* line 146: the store of `self.ctr += 1`; lines 147, 124-131: draw and return
VolumeStore ==
    /\ ppc = "store"
    /\ ctr' = ptmp + 1
    /\ ppc' = "idle"
    /\ psym' = NoSymbol
    /\ psnap' = NoSnap
    /\ pvol' = ""
    /\ ptmp' = 0
    /\ UNCHANGED <<confVars, data, cycle_symbols, current_symbol, feedVars,
                   tpc, tickPhase>>

\* console variant, lines 130-132 and 99-110
UpdateConsole ==
    /\ ppc = "idle"
    /\ variant = "console"
    /\ UNCHANGED vars

\* what the presentation tick hands to the display
NoView == [none |-> ""]

\* lines 124-131 of the matrix variant: the four DrawText calls
DrawText(symbol, snap, vol_txt) ==
    [symbol |-> Upper(SubSeq(symbol, 1, IF Len(symbol) < 3 THEN Len(symbol) ELSE 3)),
     price  |-> snap.price,
     change |-> snap.change,
     volume |-> IF vol_txt = "B" THEN snap.vol ELSE snap.quote,
     label  |-> vol_txt]

\* lines 99-110 of the console variant: what update_console writes
update_console(d, symbol) ==
    LET key == NormalizeKey(symbol)
    IN  IF key \notin DOMAIN d
        THEN NoView
        ELSE [symbol |-> d[key].symbol,
              price  |-> d[key].price,
              change |-> d[key].change,
              volume |-> d[key].vol]

run_ticker == RenderLookup \/ VolumeChoose \/ VolumeWrap \/ VolumeStore \/ UpdateConsole

(***************************************************************************)
(* SetInterval(seconds, callback), lines 158-159: a periodic timer that    *)
(* runs its callback on a thread of its own, one call after the other;     *)
(* the two timers and the feed task run concurrently and take no lock.     *)
(***************************************************************************)
RotationTimer == toggle_symbol

PresentationTimer == run_ticker

\* run(), lines 157-165
Next == fetch_ticker_data \/ KeyboardInterrupt \/ RotationTimer \/ PresentationTimer

Spec == Init /\ [][Next]_vars

(***************************************************************************)
(* The same program on a feed that serves both subscribed symbols and may  *)
(* fall silent.                                                            *)
(***************************************************************************)
fetch_ticker_display == Connect \/ Subscribe \/ ReceiveDisplay \/ Handle \/ Backoff

NextDisplay ==
    fetch_ticker_display \/ Silence \/ KeyboardInterrupt \/ RotationTimer \/ PresentationTimer

SpecDisplay == Init /\ [][NextDisplay]_vars

\* two decimal strings denote the same number
SameNumber(a, b) ==
    LET e == IF a.exp < b.exp THEN a.exp ELSE b.exp
    IN  a.coeff * Pow10(a.exp - e) * (1 - 2 * a.sign)
          = b.coeff * Pow10(b.exp - e) * (1 - 2 * b.sign)

\* failures of the session that the specification calls ConnectionError
SessionFailures == ConnectFailures \cup {"ConnectionClosed"}

\* fetch_ticker_data has been left and nothing restarts it
Ended == {"raised", "exited", "returned"}

(***************************************************************************)
(* C1: a frame that parses as JSON but is an incomplete ticker frame is    *)
(* not fatal: handling it leaves the store unchanged and the receive loop  *)
(* goes on in the same connection.                                         *)
(***************************************************************************)
C1_IncompleteFrameSkipped ==
    [][(Handle /\ IsIncompleteTicker(message))
          => (data' = data /\ fpc' = "recv" /\ sock' = "open")]_vars

(***************************************************************************)
(* C2: handling an ack frame (an 'id' field, no ticker field) leaves the   *)
(* store unchanged, logs no error, raises nothing, and the receive loop    *)
(* continues.                                                              *)
(***************************************************************************)
C2_AckIgnored ==
    [][(Handle /\ IsAck(message))
          => (data' = data /\ logged' = "" /\ exc' = exc /\ fpc' = "recv" /\ sock' = sock)]_vars

\* an ack frame has been handled while the store held a snapshot
C2_Witness ==
    /\ fpc = "recv"
    /\ IsAck(message)
    /\ DOMAIN data # {}
    /\ logged = ""

(***************************************************************************)
(* C3: handling a message that is not parseable as JSON logs the decode    *)
(* error, raises nothing, leaves the store unchanged, and the receive loop *)
(* goes on to the next frame.                                              *)
(***************************************************************************)
C3_MalformedLoggedAndSkipped ==
    [][(Handle /\ IsNotJson(message))
          => (logged' = "Error decoding message" /\ data' = data /\ fpc' = "recv")]_vars

(***************************************************************************)
(* C4: after a valid ticker frame is handled, the store lookup under the   *)
(* normalized symbol returns a snapshot whose symbol, price, percent       *)
(* change, base volume and quote volume equal the frame's s, c, P, v, q.   *)
(***************************************************************************)
C4_RoundTrip ==
    [][(Handle /\ IsValidTicker(message))
          => LET f == message.obj
                 key == NormalizeKey(f.s)
             IN  /\ key \in DOMAIN data'
                 /\ data'[key].symbol = f.s
                 /\ data'[key].price = f.c
                 /\ SameNumber(data'[key].change, f.P)
                 /\ data'[key].vol = f.v
                 /\ data'[key].quote = f.q]_vars

(***************************************************************************)
(* C5: the ingestion loop does not stop after the first or second failed   *)
(* connection attempt, whether the failure is a refused connection or      *)
(* other I/O error, a close or a timeout, so that a third attempt can      *)
(* succeed and deliver.                                                    *)
(***************************************************************************)
C5_RetriesAfterEarlyFailures ==
    ~(/\ fpc \in Ended
      /\ attempt \in {1, 2}
      /\ sock = "none"
      /\ exc \in {"OSError", "ConnectionClosed", "TimeoutError"})

(***************************************************************************)
(* C6: a session failure never ends the ingestion loop, except a fatal     *)
(* error on the very first connection attempt (the other way out, the      *)
(* shutdown signal, is the position "shutdown").                           *)
(***************************************************************************)
C6_SessionFailureNeverEndsLoop ==
    (fpc = "returned" \/ (fpc \in Ended /\ exc \in SessionFailures \cup {"SystemExit"}))
        => (attempt = 1 /\ sock = "none")

(***************************************************************************)
(* C7: every new connection attempt after the end of a session is preceded *)
(* by the backoff wait: the loop reaches line 69 again only from line 79.  *)
(***************************************************************************)
C7_BackoffBeforeReconnect ==
    [][(fpc # "connect" /\ fpc' = "connect") => fpc = "sleep"]_vars

(***************************************************************************)
(* C8: rotation is cyclic in configured order: after N rotation ticks the  *)
(* current symbol is the one at position (N mod L) + 1 of the configured   *)
(* list of length L, so L consecutive ticks select each position once and  *)
(* a multiple of L ticks returns to the first symbol, whatever the feed    *)
(* and the presentation timer do in between.                               *)
(***************************************************************************)
C8_CyclicRotation == current_symbol = symbols[tickPhase + 1]

\* a full cycle over two or more symbols has completed, with feed data present
C8_Witness ==
    /\ Len(symbols) >= 2
    /\ cycle_symbols.index = 1
    /\ tickPhase = 0
    /\ current_symbol = symbols[1]
    /\ DOMAIN data # {}
    /\ ppc = "store"

(***************************************************************************)
(* C9: when toggle_symbol completes, ctr is 0, also with a presentation    *)
(* tick running concurrently.                                              *)
(***************************************************************************)
C9_CtrZeroAfterToggle == [][ToggleLog => ctr' = 0]_vars

(***************************************************************************)
(* C10: on every connection at most one SUBSCRIBE request is sent; while   *)
(* frames of the connection are received and handled exactly one has been  *)
(* sent, and its params name every configured symbol, hyphens removed and  *)
(* '@ticker' appended, in configured order.                                *)
(***************************************************************************)
C10_SubscribeOncePerConnection ==
    /\ Len(sent) <= 1
    /\ sent # <<>> => sock # "none"
    /\ fpc \in {"recv", "handle"} =>
          /\ Len(sent) = 1
          /\ sent[1].method = "SUBSCRIBE"
          /\ Len(sent[1].params) = Len(symbols)
          /\ \A i \in 1..Len(symbols) :
                LET p == sent[1].params[i]
                    n == Len(p) - Len(AtTicker)
                IN  /\ n >= 0
                    /\ SubSeq(p, n + 1, Len(p)) = AtTicker
                    /\ SubSeq(p, 1, n) = SelectSeq(symbols[i], NotHyphen)

\* a frame is being handled on a reconnection, with two or more symbols configured
C10_Witness ==
    /\ fpc = "handle"
    /\ attempt >= 2
    /\ Len(symbols) >= 2
    /\ Len(sent) = 1
    /\ current_symbol # symbols[1]

(***************************************************************************)
(* C11: a presentation tick renders only the stored snapshot of the        *)
(* current symbol.  If the store has no entry under the normalized current *)
(* symbol the tick changes nothing and draws nothing; otherwise the        *)
(* snapshot it draws is the one stored under the normalized symbol it      *)
(* read, it keeps that snapshot to the draw, and the snapshot belongs to   *)
(* that symbol and to no other.                                            *)
(***************************************************************************)
C11_RendersCurrentSnapshot ==
    /\ [](variant = "matrix" /\ ppc # "idle"
            => /\ psnap.symbol = NormalizeKey(psym)
               /\ DrawText(psym, psnap, pvol).price = psnap.price
               /\ DrawText(psym, psnap, pvol).change = psnap.change)
    /\ [](variant = "console"
            => LET key == NormalizeKey(current_symbol)
                   view == update_console(data, current_symbol)
               IN  IF key \notin DOMAIN data
                   THEN view = NoView
                   ELSE /\ view.symbol = key
                        /\ view.price = data[key].price
                        /\ view.change = data[key].change)
    /\ [][/\ RenderLookup
             => LET key == NormalizeKey(current_symbol)
                IN  IF key \notin DOMAIN data
                    THEN UNCHANGED vars
                    ELSE psym' = current_symbol /\ psnap' = data[key]
          /\ (VolumeChoose \/ VolumeWrap) => UNCHANGED <<psym, psnap>>
          /\ UpdateConsole => UNCHANGED vars]_vars

\* the matrix is about to draw symbol c from c's snapshot while the store
\* also holds the snapshot of the other symbol
C11_Witness ==
    /\ variant = "matrix"
    /\ ppc = "store"
    /\ psym = <<"c">>
    /\ psnap.symbol = <<"C">>
    /\ KeyAB \in DOMAIN data

(***************************************************************************)
(* C12: the volume a presentation tick displays follows the counter: with  *)
(* a snapshot stored for the current symbol, the tick shows the quote      *)
(* volume while ctr is below half the toggle rate and the base volume from *)
(* then on, so that both figures appear within one rotation period.        *)
(***************************************************************************)
C12_VolumeFollowsCtr ==
    /\ [](variant = "console"
            => LET key == NormalizeKey(current_symbol)
                   view == update_console(data, current_symbol)
               IN  key \in DOMAIN data
                     => view.volume = IF 2 * ctr < refresh
                                      THEN data[key].quote
                                      ELSE data[key].vol)
    /\ [][VolumeChoose
             => LET view == DrawText(psym, psnap, pvol')
                IN  view.volume = IF 2 * ctr < refresh THEN psnap.quote ELSE psnap.vol]_vars

(***************************************************************************)
(* C13: every key of the store is normalized, upper-cased and without a    *)
(* hyphen, whatever 's' the frames carried, so that the lookup under the   *)
(* normalized symbol finds every stored snapshot.                          *)
(***************************************************************************)
C13_StoreKeysNormalized ==
    \A k \in DOMAIN data : k = NormalizeKey(k)

(***************************************************************************)
(* C14: latest frame wins.  The store has an entry for exactly the 's'     *)
(* values of the valid ticker frames handled so far, and the entry of each *)
(* is the snapshot of the last valid ticker frame handled with that 's':   *)
(* its s, c, v, q, and its P formatted to four places.  Acks, malformed    *)
(* frames and frames with another 's' do not change it.                    *)
(***************************************************************************)
C14_LatestFrameWins ==
    /\ DOMAIN data = DOMAIN latest
    /\ \A k \in DOMAIN data :
          /\ latest[k].s = k
          /\ data[k].symbol = latest[k].s
          /\ data[k].price = latest[k].c
          /\ data[k].vol = latest[k].v
          /\ data[k].quote = latest[k].q
          /\ data[k].change = Format4(latest[k].P)

\* on a later connection a frame with another 's' has just been handled, and
\* the entry of AB is still the snapshot of the second AB frame
C14_Witness ==
    /\ attempt >= 2
    /\ fpc = "recv"
    /\ message = TickerRaw
    /\ RawAB \in DOMAIN data
    /\ KeyAB \in DOMAIN data
    /\ data[KeyAB].price = TickerAB2.obj.c

(***************************************************************************)
(* C15: the store survives an outage.  No step removes a store entry, only *)
(* handling a frame changes the store (the end of a session, the backoff   *)
(* and a reconnection do not), and a presentation tick whose normalized    *)
(* symbol has an entry renders that entry whatever the feed's state.       *)
(***************************************************************************)
C15_StoreSurvivesOutage ==
    /\ [][/\ DOMAIN data \subseteq DOMAIN data'
          /\ ~Handle => data' = data
          /\ (RenderLookup /\ NormalizeKey(current_symbol) \in DOMAIN data)
               => (ppc' = "vol" /\ psnap' = data[NormalizeKey(current_symbol)])]_vars
    /\ [](variant = "console" /\ NormalizeKey(current_symbol) \in DOMAIN data
            => update_console(data, current_symbol) # NoView)

\* the session has failed and the feed task sleeps before reconnecting, while
\* the presentation tick holds the stored snapshot of the current symbol
C15_Witness ==
    /\ fpc = "sleep"
    /\ sock = "closed"
    /\ logged = "WebSocket connection error"
    /\ ppc = "vol"
    /\ psnap = data[NormalizeKey(current_symbol)]

(***************************************************************************)
(* C16: the rotation state has a single writer: only toggle_symbol changes *)
(* current_symbol and ctr; the presentation tick and the feed task leave   *)
(* both unchanged.                                                         *)
(***************************************************************************)
C16_OnlyToggleWritesRotation ==
    [][~toggle_symbol => UNCHANGED <<current_symbol, ctr>>]_vars

(***************************************************************************)
(* C16, amended: only toggle_symbol changes current_symbol and the cycle;  *)
(* ctr is changed by toggle_symbol and by get_volume_text of the matrix    *)
(* variant's presentation tick (its wrap and its increment) and by nothing *)
(* else: the feed task, handle_message and update_console leave it alone.  *)
(***************************************************************************)
C16_RotationWriters ==
    [][/\ ~toggle_symbol => UNCHANGED <<current_symbol, cycle_symbols, tickPhase>>
       /\ ~(toggle_symbol \/ VolumeWrap \/ VolumeStore) => ctr' = ctr]_vars

\* no rotation tick has run yet, and a presentation tick has counted
C16_Witness ==
    /\ variant = "matrix"
    /\ tpc = "idle"
    /\ tickPhase = 0
    /\ cycle_symbols.consumed = 1
    /\ ppc = "idle"
    /\ ctr = 1
    /\ fpc = "recv"

\* the symbol toggle_symbol has just replaced
PreviousSymbol == symbols[((tickPhase + Len(symbols) - 1) % Len(symbols)) + 1]

(***************************************************************************)
(* C17: the rotation update is atomic for readers: a presentation tick     *)
(* never takes its volume decision from the previous symbol's counter,     *)
(* still to be reset by the running rotation tick, after it has read the   *)
(* new current symbol.                                                     *)
(***************************************************************************)
C17_AtomicRotation ==
    [][VolumeChoose
         => ~(/\ tpc = "reset"
              /\ psym = current_symbol
              /\ PreviousSymbol # current_symbol
              /\ ctr > 0)]_vars

(***************************************************************************)
(* C18: orderly cancellation: once KeyboardInterrupt has been handled, no  *)
(* step of the feed task, of toggle_symbol or of run_ticker occurs.        *)
(***************************************************************************)
C18_NothingRunsAfterShutdown ==
    [][(fetch_ticker_data \/ RotationTimer \/ PresentationTimer) => fpc # "shutdown"]_vars

(***************************************************************************)
(* C19: a silent feed cannot wedge ingestion: while the connection is      *)
(* silent the feed task still has a step to take (the timeout that ends    *)
(* the session), so that a new connection attempt follows.  The connection *)
(* stays silent for good and only the feed task leaves the receive loop,   *)
(* so without such a step no reconnection ever follows.                    *)
(***************************************************************************)
C19_SilenceTimesOut ==
    (fpc = "recv" /\ sock = "silent") => ENABLED fetch_ticker_display

(***************************************************************************)
(* C20: in every reachable state, under every interleaving of rotation     *)
(* ticks, presentation ticks and feed steps, 0 <= ctr <= refresh.          *)
(***************************************************************************)
C20_CtrInRange ==
    0 <= ctr /\ ctr <= refresh

\* the counter has reached the toggle rate and get_volume_text is at its wrap
C20_Witness ==
    /\ variant = "matrix"
    /\ refresh = MaxRefresh
    /\ ctr = refresh
    /\ ppc = "wrap"

====
